---- MODULE Spec2Model ----
(***************************************************************************)
(* A model of fend: the File/Location/Violation model (fend/__init__.py),  *)
(* the fix engine and the fix command (fend/__main__.py), the text pattern *)
(* TrailingWhitespace (fend/stock/general.py) and the Makefile pattern     *)
(* SuperfolousSpaceInCall (fend/stock/make.py).                            *)
(*                                                                         *)
(* A text is a sequence of one-character strings.  A value that Python     *)
(* types as `list[str] | None` is a record [isNone, lines].  A call that   *)
(* may raise returns a record [raised, value]: raised = "" when the call   *)
(* returned normally, otherwise the name of the exception.                 *)
(***************************************************************************)
EXTENDS Integers, Sequences, FiniteSets, TLC

VARIABLES
    disk,          \* the content of the file at `filespec`, as stored on disk
    project_text,  \* project.files[0].text, read once by File.__init__
    patterns,      \* the list of pattern ids handed to _fix
    pattern_i,     \* position of `for pattern in patterns`
    pc,            \* position in fix/_fix
    violations,    \* the list the last pattern.check(project) returned
    raised,        \* the exception that ended the run, "" if none
    run,           \* how many times fix has been invoked on the file
    disk0,         \* history: the file content when the current run began
    written,       \* history: the current run has written the file
    pending,       \* history: length of `violations` when the last fix was applied
    reduced,       \* history: every re-check after a fix reported fewer violations
    args,          \* the arguments of a direct call of one function
    ret            \* what that call returned or raised

vars == <<disk, project_text, patterns, pattern_i, pc, violations, raised, run,
          disk0, written, pending, reduced, args, ret>>

engineVars == <<disk, project_text, patterns, pattern_i, pc, violations, raised,
                run, disk0, written, pending, reduced>>

callVars == <<args, ret>>

(***************************************************************************)
(* Bounds of the model.                                                    *)
(***************************************************************************)
MaxTextLen == 4      \* longest text handed to TrailingWhitespace.check
MaxMakeLen == 6      \* longest Makefile text handed to SuperfolousSpaceInCall.check
MaxFileLines == 2    \* most source lines of the file a fix run starts from
MaxPatterns == 2     \* most patterns handed to _fix
MaxRuns == 2         \* most consecutive fix runs on the file
MaxSpliceLines == 3  \* most lines of the file a splice is applied to
MaxFixLines == 2     \* most lines in a violation's before/after

(***************************************************************************)
(* Characters and Python's str methods.                                    *)
(***************************************************************************)
NL == "\n"
SP == " "

\* the line boundaries of str.splitlines that the model's texts contain
LineBreaks == {NL}

\* the characters str.rstrip()/str.lstrip() remove that the texts contain
Whitespace == {SP, NL}

\* The one element of a one-element set.  `The({F(x) : x \in {e}})` is
\* F(e) with e evaluated once, however often F uses its argument.
The(S) == CHOOSE x \in S : TRUE

Min(S) == The({CHOOSE x \in T : \A y \in T : x <= y : T \in {S}})
Max(S) == The({CHOOSE x \in T : \A y \in T : y <= x : T \in {S}})

\* the index of the last character of the first line of a non-empty text
LineEnd(t) ==
    LET brk == {i \in 1..Len(t) : t[i] \in LineBreaks} IN
    IF brk = {} THEN Len(t) ELSE Min(brk)

RECURSIVE SplitLines(_)
\* str.splitlines(keepends=True)
SplitLines(t) ==
    IF t = <<>> THEN <<>>
    ELSE The({<<SubSeq(t, 1, e)>> \o SplitLines(rest) :
                <<e, rest>> \in {<<LineEnd(t), SubSeq(t, LineEnd(t) + 1, Len(t))>>}})

RECURSIVE Join(_)
\* ''.join(lines)
Join(lines) ==
    IF lines = <<>> THEN <<>> ELSE Head(lines) \o Join(Tail(lines))

\* str.rstrip(): up to the last character that is no whitespace
RStrip(s) ==
    SubSeq(s, 1, Max({0} \cup {i \in 1..Len(s) : s[i] \notin Whitespace}))

\* str.lstrip(): from the first character that is no whitespace
LStrip(s) ==
    SubSeq(s, Min({Len(s) + 1} \cup {i \in 1..Len(s) : s[i] \notin Whitespace}),
           Len(s))

\* File.lines
FileLines(text) == SplitLines(text)

\* File.get_line(line_no)
GetLine(text, line_no) == FileLines(text)[line_no]

(***************************************************************************)
(* Optional values and call results.                                       *)
(***************************************************************************)
None == [isNone |-> TRUE, lines |-> <<>>]
Some(ls) == [isNone |-> FALSE, lines |-> ls]

Returned(v) == [raised |-> "", value |-> v]
Raised(e) == [raised |-> e, value |-> <<>>]

\* a step that appends to a list, followed by the steps after it: the
\* first exception raised, else what both appended, in order
Sequenced(one, rest) ==
    IF one.raised # "" THEN one
    ELSE IF rest.raised # "" THEN rest
    ELSE Returned(one.value \o rest.value)

(***************************************************************************)
(* Violation (fend/__init__.py) and Violation (fend/stock/general.py).     *)
(***************************************************************************)
\* `all(line[-1] == '\n' for line in lines)` under `assert`: the first line
\* that is empty raises IndexError, the first that ends otherwise fails the
\* assertion.
LinesError(lines) ==
    LET bad == {i \in 1..Len(lines) :
                  lines[i] = <<>> \/ lines[i][Len(lines[i])] # NL} IN
    IF bad = {} THEN ""
    ELSE IF lines[Min(bad)] = <<>> THEN "IndexError" ELSE "AssertionError"

\* fend.Violation.__post_init__: the exception it raises, "" if none
ViolationPostInit(before, after) ==
    IF ~before.isNone /\ LinesError(before.lines) # ""
    THEN LinesError(before.lines)
    ELSE IF ~after.isNone THEN LinesError(after.lines) ELSE ""

\* fend.stock.general.Violation.__post_init__, whose before/after are lists
GeneralViolationPostInit(before, after) ==
    IF LinesError(before) # "" THEN LinesError(before) ELSE LinesError(after)

\* the fields of a Violation that the engine and the claims read
Violation(line, column, before, after) ==
    [line |-> line, column |-> column, before |-> before, after |-> after]

(***************************************************************************)
(* TrailingWhitespace.check (fend/stock/general.py), on the lines of the   *)
(* one file general.Project.get_files() returns.                           *)
(***************************************************************************)
RECURSIVE TrailingWhitespaceScan(_, _)
TrailingWhitespaceScan(lines, line_index) ==
    IF line_index > Len(lines) THEN Returned(<<>>)
    ELSE LET line == lines[line_index]
             after_line == RStrip(line) \o <<NL>>
         IN  IF after_line = line
             THEN TrailingWhitespaceScan(lines, line_index + 1)
             ELSE IF GeneralViolationPostInit(<<line>>, <<after_line>>) # ""
             THEN Raised(GeneralViolationPostInit(<<line>>, <<after_line>>))
             ELSE The({Sequenced(one, rest) :
                         one \in {Returned(<<Violation(line_index, 1, Some(<<line>>),
                                                       Some(<<after_line>>))>>)},
                         rest \in {TrailingWhitespaceScan(lines, line_index + 1)}})

TrailingWhitespaceCheck(lines) == TrailingWhitespaceScan(lines, 1)

(***************************************************************************)
(* The Makefile syntax tree (fend/stock/make.py).  The parser is an        *)
(* external library; the model keeps what the patterns read of a tree:     *)
(* the function_call nodes, their argument nodes, each node's start and    *)
(* end point and its text.  In a model text "(" stands for the opening of  *)
(* a call up to its first argument, "$(call ", ")" closes the call and     *)
(* "," separates its arguments; an argument runs to the next "," or ")"    *)
(* of its own call and may hold a nested call or a line break.  A node is  *)
(* named by the index in the text of its first character.                  *)
(***************************************************************************)
LP == "("
RP == ")"
COMMA == ","

\* the number of calls open just before index p
Depth(t, p) ==
    Cardinality({i \in 1..(p - 1) : t[i] = LP})
    - Cardinality({i \in 1..(p - 1) : t[i] = RP})

\* the texts the parser turns into a tree without ERROR nodes
Balanced(t) ==
    /\ \A p \in 1..Len(t) : Depth(t, p + 1) >= 0
    /\ Depth(t, Len(t) + 1) = 0

\* node.end_point of the node that starts at index p, as an index (exclusive)
NodeEnd(t, p) ==
    Min({k \in p..Len(t) : t[k] \in {COMMA, RP} /\ Depth(t, k) = Depth(t, p)})

\* the index of the ")" that closes the call opened at index call
CallClose(t, call) ==
    Min({k \in (call + 1)..Len(t) : t[k] = RP /\ Depth(t, k) = Depth(t, call) + 1})

\* whether an `argument` node starts at index p
IsArgument(t, p) ==
    /\ p > 1
    /\ Depth(t, p) >= 1
    /\ t[p - 1] \in {LP, COMMA}
    /\ t[p] \notin {COMMA, RP}

\* whether a `function_call` node starts at index p
IsFunctionCall(t, p) == t[p] = LP

\* the indices lo..hi in ascending order: the order in which a pre-order
\* walk of the tree meets the nodes that start there
Indices(lo, hi) == [k \in 1..(IF hi >= lo THEN hi - lo + 1 ELSE 0) |-> lo + k - 1]

\* _find_nodes_by_type(tree.root_node, 'function_call'): every call, nested
\* ones included, since find_nodes descends into a node that matched
ExtractCallNodes(t) ==
    LET Test(p) == IsFunctionCall(t, p) IN SelectSeq(Indices(1, Len(t)), Test)

\* _find_nodes_by_type(call, 'argument'): every argument below the call,
\* those of the calls nested in it included
FindArguments(t, call) ==
    LET Test(p) == IsArgument(t, p)
    IN  SelectSeq(Indices(call, CallClose(t, call)), Test)

\* node.start_point / node.end_point of index p: (row, column), 0-indexed
Point(t, p) ==
    LET nls == {i \in 1..(p - 1) : t[i] = NL}
        last == IF nls = {} THEN 0 ELSE CHOOSE i \in nls : \A j \in nls : j <= i
    IN  [row |-> Cardinality(nls), col |-> p - 1 - last]

\* line_and_column_from_node
LineAndColumnFromNode(t, p) ==
    [line |-> Point(t, p).row + 1, column |-> Point(t, p).col + 1]

\* node.text
NodeText(t, p) == SubSeq(t, p, NodeEnd(t, p) - 1)

(***************************************************************************)
(* SuperfolousSpaceInCall.check (fend/stock/make.py) on file.text.         *)
(***************************************************************************)
\* the Violation for an argument whose text begins with a space, or the
\* exception its construction raises: a fix when the argument starts and
\* ends on one line, none otherwise
SuperfluousViolation(text, start_point, end_point, before_line) ==
    The({IF ViolationPostInit(before, after) # ""
         THEN Raised(ViolationPostInit(before, after))
         ELSE Returned(<<Violation(start_point.row + 1, start_point.col + 1,
                                   before, after)>>) :
           before \in {IF start_point.row = end_point.row
                       THEN Some(<<before_line>>) ELSE None},
           after \in {IF start_point.row = end_point.row
                      THEN Some(<<SubSeq(before_line, 1, start_point.col)
                                  \o LStrip(text)
                                  \o SubSeq(before_line, end_point.col + 1,
                                            Len(before_line))>>)
                      ELSE None}})

\* the body of `for argument in ...` for one argument: nothing appended,
\* one Violation appended, or an exception
SuperfluousArgument(t, argument) ==
    IF t[argument] # SP THEN Returned(<<>>)
    ELSE The({SuperfluousViolation(text, start_point, end_point, before_line) :
                text \in {NodeText(t, argument)},
                start_point \in {Point(t, argument)},
                end_point \in {Point(t, NodeEnd(t, argument))},
                before_line \in {GetLine(t, LineAndColumnFromNode(t, argument).line)}})

RECURSIVE SuperfluousArguments(_, _, _)
\* `for argument in _find_nodes_by_type(call, 'argument')` from the i-th on
SuperfluousArguments(t, arguments, i) ==
    IF i > Len(arguments) THEN Returned(<<>>)
    ELSE The({Sequenced(one, rest) :
                one \in {SuperfluousArgument(t, arguments[i])},
                rest \in {SuperfluousArguments(t, arguments, i + 1)}})

RECURSIVE SuperfluousCalls(_, _, _)
\* `for call in _extract_call_nodes(file.text)` from the i-th call on
SuperfluousCalls(t, calls, i) ==
    IF i > Len(calls) THEN Returned(<<>>)
    ELSE The({Sequenced(one, rest) :
                one \in {SuperfluousArguments(t, FindArguments(t, calls[i]), 1)},
                rest \in {SuperfluousCalls(t, calls, i + 1)}})

SuperfluousSpaceInCallCheck(t) == SuperfluousCalls(t, ExtractCallNodes(t), 1)

(***************************************************************************)
(* The patterns and the project (fend/__main__.py, fend/__init__.py).      *)
(***************************************************************************)
TrailingWhitespaceId == "trailing-whitespace"
RequiredTargetsId == "make/missing-required-target"
SuperfluousSpaceInCallId == "make/superfluous-space-in-call"

\* the pattern classes of the repository
PatternIds == {TrailingWhitespaceId, RequiredTargetsId, SuperfluousSpaceInCallId}

\* _find_patterns(): general.patterns | make.patterns
FindPatterns == {TrailingWhitespaceId, RequiredTargetsId}

\* what an instance of fend.Project offers: its constructors and `files`
ProjectAttributes == {"from_file_path", "from_files", "from_text", "files"}

\* pattern.check(project) for the project fix builds; `text` is
\* project.files[0].text and `on_disk` the file's content at the call.
\* TrailingWhitespace and RequiredTargets begin with project.get_files();
\* RequiredTargets then hands file.path, a Path, to _Makefile, which reads
\* its `.text`.
PatternCheck(pattern, text, on_disk) ==
    CASE pattern = SuperfluousSpaceInCallId -> SuperfluousSpaceInCallCheck(text)
      [] pattern = TrailingWhitespaceId ->
           IF "get_files" \in ProjectAttributes
           THEN TrailingWhitespaceCheck(SplitLines(on_disk))
           ELSE Raised("AttributeError")
      [] pattern = RequiredTargetsId -> Raised("AttributeError")

\* a splice that takes the 1-indexed line number for the 0-indexed start
SpliceFromLineNumber(lines, line_index, n, after) ==
    LET start == IF line_index + 1 < Len(lines) THEN line_index + 1 ELSE Len(lines)
        stop == IF line_index + 1 + n < Len(lines) THEN line_index + 1 + n
                ELSE Len(lines)
    IN  SubSeq(lines, 1, start) \o after \o SubSeq(lines, stop + 1, Len(lines))

\* lines[line_index : line_index + n] = after, Python's slice assignment:
\* a slice that reaches past the end of the list is cut to the list
Splice(lines, line_index, n, after) ==
    LET start == IF line_index < Len(lines) THEN line_index ELSE Len(lines)
        stop == IF line_index + n < Len(lines) THEN line_index + n ELSE Len(lines)
    IN  SubSeq(lines, 1, start) \o after \o SubSeq(lines, stop + 1, Len(lines))

\* the text _fix writes for `violation` when the file holds `on_disk`:
\* violation.location.file reads the file again
FixedText(on_disk, violation) ==
    Join(Splice(FileLines(on_disk), violation.line - 1,
                Len(violation.before.lines), violation.after.lines))

(***************************************************************************)
(* fix and _fix (fend/__main__.py).                                        *)
(***************************************************************************)
\* fix: Project.from_file_path(filespec) reads the file into File.text,
\* then _fix enters `for pattern in patterns`
Fix ==
    /\ pc = "fix"
    /\ project_text' = disk
    /\ pattern_i' = 1
    /\ pc' = IF patterns = <<>> THEN "done" ELSE "check"
    /\ violations' = <<>>
    /\ disk0' = disk
    /\ written' = FALSE
    /\ pending' = 0
    /\ reduced' = TRUE
    /\ UNCHANGED <<disk, patterns, raised, run, callVars>>

\* violations = pattern.check(project)
Check ==
    /\ pc = "check"
    /\ \E r \in {PatternCheck(patterns[pattern_i], project_text, disk)} :
       /\ raised' = r.raised
       /\ violations' = r.value
       /\ pc' = IF r.raised # "" THEN "error" ELSE "select"
       /\ reduced' = (reduced /\ (pending = 0 \/ Len(r.value) < pending))
    /\ pending' = 0
    /\ UNCHANGED <<disk, project_text, patterns, pattern_i, run, disk0, written,
                   callVars>>

\* a loop over the patterns that starts over at the first after the last
BreakStartsOver ==
    /\ pc = "select"
    /\ violations = <<>>
    /\ pattern_i' = IF pattern_i < Len(patterns) THEN pattern_i + 1 ELSE 1
    /\ pc' = "check"
    /\ UNCHANGED <<disk, project_text, patterns, violations, raised, run, disk0,
                   written, pending, reduced, callVars>>

\* if not violations: break -- and the for loop takes the next pattern
Break ==
    /\ pc = "select"
    /\ violations = <<>>
    /\ pattern_i' = pattern_i + 1
    /\ pc' = IF pattern_i < Len(patterns) THEN "check" ELSE "done"
    /\ UNCHANGED <<disk, project_text, patterns, violations, raised, run, disk0,
                   written, pending, reduced, callVars>>

\* a None `before`/`after` taken for an empty list: the file is written back
ContinueWritesFile ==
    /\ pc = "select"
    /\ violations # <<>>
    /\ violations[1].after.isNone
    /\ disk' = Join(Splice(FileLines(disk), violations[1].line - 1, 0, <<>>))
    /\ written' = TRUE
    /\ pending' = Len(violations)
    /\ pc' = "check"
    /\ UNCHANGED <<project_text, patterns, pattern_i, violations, raised, run,
                   disk0, reduced, callVars>>

\* if violation.after is None: continue -- the next turn of `while True`
Continue ==
    /\ pc = "select"
    /\ violations # <<>>
    /\ violations[1].after.isNone
    /\ pc' = "check"
    /\ UNCHANGED <<disk, project_text, patterns, pattern_i, violations, raised,
                   run, disk0, written, pending, reduced, callVars>>

\* the splice of violations[0] and write_text; len(None) raises TypeError
ApplyFix ==
    /\ pc = "select"
    /\ violations # <<>>
    /\ ~violations[1].after.isNone
    /\ IF violations[1].before.isNone
       THEN /\ pc' = "error"
            /\ raised' = "TypeError"
            /\ UNCHANGED <<disk, written, pending>>
       ELSE /\ disk' = FixedText(disk, violations[1])
            /\ written' = TRUE
            /\ pending' = Len(violations)
            /\ pc' = "check"
            /\ UNCHANGED raised
    /\ UNCHANGED <<project_text, patterns, pattern_i, violations, run, disk0,
                   reduced, callVars>>

\* the command is run once more on the same file with the same patterns
FixAgain ==
    /\ pc \in {"done", "error"}
    /\ run < MaxRuns
    /\ run' = run + 1
    /\ pc' = "fix"
    /\ raised' = ""
    /\ UNCHANGED <<disk, project_text, patterns, pattern_i, violations, disk0,
                   written, pending, reduced, callVars>>

(***************************************************************************)
(* The files and pattern lists a run starts from.                          *)
(***************************************************************************)
\* source lines of a Makefile; a call may be left open to the next line
MakeLines ==
    { <<"a", NL>>,
      <<"a", SP, NL>>,
      <<LP, "a", COMMA, "a", RP, NL>>,
      <<LP, "a", COMMA, SP, "a", RP, NL>>,
      <<LP, "a", COMMA, SP, "a", COMMA, SP, "a", RP, NL>>,
      <<LP, "a", COMMA, SP, LP, "a", COMMA, SP, "a", RP, RP, NL>>,
      <<LP, "a", COMMA, SP, "a", NL>>,
      <<RP, NL>> }

SeqsUpTo(S, n) == UNION {[1..k -> S] : k \in 0..n}

\* the file: up to MaxFileLines source lines, the last with or without its
\* line break
MakeFiles ==
    {t \in {Join(ls) : ls \in SeqsUpTo(MakeLines, MaxFileLines)}
           \cup {SubSeq(Join(ls), 1, Len(Join(ls)) - 1) :
                   ls \in SeqsUpTo(MakeLines, MaxFileLines) \ {<<>>}} :
       Balanced(t)}

NoCall == [called |-> FALSE, raised |-> "", value |-> <<>>]

Init ==
    /\ disk \in MakeFiles
    /\ patterns \in SeqsUpTo(PatternIds, MaxPatterns)
    /\ project_text = <<>>
    /\ pattern_i = 1
    /\ pc = "fix"
    /\ violations = <<>>
    /\ raised = ""
    /\ run = 1
    /\ disk0 = disk
    /\ written = FALSE
    /\ pending = 0
    /\ reduced = TRUE
    /\ args = <<>>
    /\ ret = NoCall

Next == Fix \/ Check \/ Break \/ Continue \/ ApplyFix \/ FixAgain

Spec == Init /\ [][Next]_vars

\* _fix is sequential code: a step that can be taken is taken
FairSpec == Spec /\ WF_vars(Next)

(***************************************************************************)
(* Direct calls of one function: the arguments are drawn by the initial    *)
(* state, the call is one step, and no fix run is under way.               *)
(***************************************************************************)
NoRun ==
    /\ disk = <<>>
    /\ project_text = <<>>
    /\ patterns = <<>>
    /\ pattern_i = 1
    /\ pc = "idle"
    /\ violations = <<>>
    /\ raised = ""
    /\ run = 1
    /\ disk0 = <<>>
    /\ written = FALSE
    /\ pending = 0
    /\ reduced = TRUE

Result(r) == [called |-> TRUE, raised |-> r.raised, value |-> r.value]

\* TrailingWhitespace().check(project), the file holding args.text ------------
TextAlphabet == {"a", SP, NL}

InitTrailingWhitespace ==
    /\ NoRun
    /\ args \in {[text |-> t] : t \in SeqsUpTo(TextAlphabet, MaxTextLen)}
    /\ ret = NoCall

CallTrailingWhitespaceCheck ==
    /\ ~ret.called
    /\ ret' = Result(TrailingWhitespaceCheck(SplitLines(args.text)))
    /\ UNCHANGED <<engineVars, args>>

SpecTrailingWhitespace ==
    InitTrailingWhitespace /\ [][CallTrailingWhitespaceCheck]_vars

\* Violation(tags, summary, location, before, after) ----------------------------
FieldLines == { <<"a", NL>>, <<"a">>, <<NL>>, <<>> }

FieldValues == {None} \cup {Some(ls) : ls \in SeqsUpTo(FieldLines, MaxFixLines)}

InitViolation ==
    /\ NoRun
    /\ args \in [before : FieldValues, after : FieldValues]
    /\ ret = NoCall

ConstructViolation ==
    /\ ~ret.called
    /\ ret' = [called |-> TRUE,
               raised |-> ViolationPostInit(args.before, args.after),
               value |-> IF ViolationPostInit(args.before, args.after) = ""
                         THEN <<Violation(1, 1, args.before, args.after)>>
                         ELSE <<>>]
    /\ UNCHANGED <<engineVars, args>>

SpecViolation == InitViolation /\ [][ConstructViolation]_vars

\* the splice and write of _fix for one fixable violation ----------------------
FileLineSet == { <<"a", NL>>, <<"b", NL>> }
AfterLineSet == { <<"a", NL>>, <<"c", NL>> }

\* a file of up to MaxSpliceLines lines, the last with or without its line
\* break, and a violation at one of its lines whose `before` are the
\* len(before) lines from there on
SpliceArgs ==
    LET files == {Join(ls) : ls \in SeqsUpTo(FileLineSet, MaxSpliceLines)}
                 \cup {SubSeq(Join(ls), 1, Len(Join(ls)) - 1) :
                         ls \in SeqsUpTo(FileLineSet, MaxSpliceLines) \ {<<>>}}
    IN  UNION { UNION { UNION { { [text |-> t,
                         violation |->
                           Violation(line, 1,
                                     Some(SubSeq(SplitLines(t), line, line + n - 1)),
                                     Some(after))] :
                       after \in SeqsUpTo(AfterLineSet, MaxFixLines) } :
                     n \in {k \in 0..MaxFixLines :
                              line - 1 + k <= Len(SplitLines(t))} } :
                   line \in 1..Len(SplitLines(t)) } :
                 t \in files }

InitSplice ==
    /\ NoRun
    /\ args \in {a \in SpliceArgs :
                   ViolationPostInit(a.violation.before, a.violation.after) = ""}
    /\ ret = NoCall

CallSplice ==
    /\ ~ret.called
    /\ ret' = Result(Returned(FixedText(args.text, args.violation)))
    /\ UNCHANGED <<engineVars, args>>

SpecSplice == InitSplice /\ [][CallSplice]_vars

\* SuperfolousSpaceInCall().check(Project.from_text(args.text)) ------------------
MakeAlphabet == {LP, RP, COMMA, SP, "a", NL}

InitSuperfluous ==
    /\ NoRun
    /\ args \in {[text |-> t] :
                   t \in {u \in SeqsUpTo(MakeAlphabet, MaxMakeLen) : Balanced(u)}}
    /\ ret = NoCall

CallSuperfluousCheck ==
    /\ ~ret.called
    /\ ret' = Result(SuperfluousSpaceInCallCheck(args.text))
    /\ UNCHANGED <<engineVars, args>>

SpecSuperfluous == InitSuperfluous /\ [][CallSuperfluousCheck]_vars

(***************************************************************************)
(* The check command (fend/__main__.py).  args.diff is the --diff option,  *)
(* ret.value what the command has printed so far: the line of a violation  *)
(* as [print |-> "violation", ...], a comparison as [print |-> "diff", ...].*)
(***************************************************************************)
\* list(differ.compare(before, after)): difflib's SequenceMatcher takes a
\* None sequence for "not set"; with both None no opcodes exist
\* (AttributeError), with one None len(None) fails (TypeError).  The
\* comparison itself is kept as the pair of line lists compared.
DifferCompare(before, after) ==
    IF before.isNone /\ after.isNone THEN Raised("AttributeError")
    ELSE IF before.isNone \/ after.isNone THEN Raised("TypeError")
    ELSE Returned([print |-> "diff", before |-> before.lines,
                   after |-> after.lines])

\* the line printed for a violation: its location, summary and tags
ViolationLine(violation) ==
    [print |-> "violation", line |-> violation.line, column |-> violation.column,
     before |-> violation.before, after |-> violation.after]

\* check: enabled_patterns = ...; violations = []
CheckCommand ==
    /\ pc = "check_command"
    /\ pattern_i' = 1
    /\ violations' = <<>>
    /\ pc' = IF patterns = <<>> THEN "print" ELSE "extend"
    /\ UNCHANGED <<disk, project_text, patterns, raised, run, disk0, written,
                   pending, reduced, callVars>>

\* violations.extend(pattern.check(Project.from_file_path(filespec))): a
\* new project for every pattern, its File reading the file at that moment
CheckExtend ==
    /\ pc = "extend"
    /\ project_text' = disk
    /\ \E r \in {PatternCheck(patterns[pattern_i], disk, disk)} :
       /\ raised' = r.raised
       /\ violations' = violations \o r.value
       /\ pc' = IF r.raised # "" THEN "error"
                ELSE IF pattern_i < Len(patterns) THEN "extend" ELSE "print"
    /\ pattern_i' = pattern_i + 1
    /\ UNCHANGED <<disk, patterns, run, disk0, written, pending, reduced,
                   callVars>>

\* one turn of `for violation in violations`: the violation's line is
\* printed, then, with diff, the comparison of its before and after;
\* `violations` keeps the violations still to be printed
CheckPrint ==
    /\ pc = "print"
    /\ violations # <<>>
    /\ violations' = Tail(violations)
    /\ \E d \in {DifferCompare(violations[1].before, violations[1].after)} :
       IF ~args.diff
       THEN /\ ret' = [ret EXCEPT !.value = Append(@, ViolationLine(violations[1]))]
            /\ UNCHANGED <<pc, raised>>
       ELSE IF d.raised # ""
       THEN /\ ret' = [ret EXCEPT !.value = Append(@, ViolationLine(violations[1])),
                                  !.called = TRUE, !.raised = d.raised]
            /\ raised' = d.raised
            /\ pc' = "error"
       ELSE /\ ret' = [ret EXCEPT !.value = Append(Append(@, ViolationLine(violations[1])),
                                                  d.value)]
            /\ UNCHANGED <<pc, raised>>
    /\ UNCHANGED <<disk, project_text, patterns, pattern_i, run, disk0, written,
                   pending, reduced, args>>

\* the loop is over and check returns
CheckReturn ==
    /\ pc = "print"
    /\ violations = <<>>
    /\ pc' = "done"
    /\ ret' = [ret EXCEPT !.called = TRUE]
    /\ UNCHANGED <<disk, project_text, patterns, pattern_i, violations, raised, run,
                   disk0, written, pending, reduced, args>>

InitCheckCommand ==
    /\ disk \in MakeFiles
    /\ patterns \in SeqsUpTo(PatternIds, MaxPatterns)
    /\ project_text = <<>>
    /\ pattern_i = 1
    /\ pc = "check_command"
    /\ violations = <<>>
    /\ raised = ""
    /\ run = 1
    /\ disk0 = disk
    /\ written = FALSE
    /\ pending = 0
    /\ reduced = TRUE
    /\ args \in [diff : BOOLEAN]
    /\ ret = NoCall

NextCheckCommand == CheckCommand \/ CheckExtend \/ CheckPrint \/ CheckReturn

SpecCheckCommand == InitCheckCommand /\ [][NextCheckCommand]_vars

(***************************************************************************)
(* The claims.                                                             *)
(***************************************************************************)
\* a line without its line break
LineContent(line) ==
    IF line # <<>> /\ line[Len(line)] = NL THEN SubSeq(line, 1, Len(line) - 1)
    ELSE line

\* the line has whitespace between its last other character and its end
HasTrailingWhitespace(line) ==
    LineContent(line) # <<>> /\ LineContent(line)[Len(LineContent(line))] = SP

\* the violations in vs that carry a fix
Fixable(vs) == LET Test(v) == ~v.after.isNone IN SelectSeq(vs, Test)

\* the violations in vs that carry none
NonFixable(vs) == LET Test(v) == v.after.isNone IN SelectSeq(vs, Test)

\* what pattern.check returns for a project built from the file as it is
\* now, and <<>> when the check raises
FreshCheck(pattern, on_disk) == PatternCheck(pattern, on_disk, on_disk)

\* C1: in a fix run, once the engine has written the file, the list a
\* pattern.check(project) call returns is what the pattern reports for the
\* content now in the file: no violation the write removed is reported again.
C1_RecheckSeesWrittenContent ==
    (pc = "select" /\ written)
        => /\ FreshCheck(patterns[pattern_i], disk).raised = ""
           /\ violations = FreshCheck(patterns[pattern_i], disk).value

\* C2: when the first violation a pattern reports has `after` None, the
\* engine's next step leaves the file alone and goes on to the next pattern
\* (or ends the run after the last one).
C2_NonFixableSkippedToNextPattern ==
    [][(pc = "select" /\ violations # <<>> /\ violations[1].after.isNone)
          => /\ disk' = disk
             /\ (pc' = "done" \/ pattern_i' = pattern_i + 1)]_vars

\* C3: if every fix applied is followed by a re-check that reports fewer
\* violations, _fix terminates; and when it leaves a pattern's loop, that
\* pattern's check reports no fixable violation for the file.
C3_ReducingFixesTerminate ==
    /\ <>(pc \in {"done", "error"} \/ ~reduced)
    /\ [][(pc = "select" /\ pattern_i' = pattern_i + 1)
             => Fixable(FreshCheck(patterns[pattern_i], disk).value) = <<>>]_vars

\* C4: fix is idempotent: a first run with trailing-whitespace enabled on a
\* file that has a line with trailing whitespace ends normally with no such
\* line left ("print('x') \n" has become "print('x')\n"), and a second run
\* right after a first one writes nothing and leaves the content as it was.
C4_FixIdempotent ==
    /\ (/\ run = 1
        /\ pc \in {"done", "error"}
        /\ patterns = <<TrailingWhitespaceId>>
        /\ TrailingWhitespaceId \in FindPatterns
        /\ \E i \in 1..Len(SplitLines(disk0)) :
              HasTrailingWhitespace(SplitLines(disk0)[i]))
          => /\ pc = "done"
             /\ \A i \in 1..Len(SplitLines(disk)) :
                   ~HasTrailingWhitespace(SplitLines(disk)[i])
    /\ (run = 2 /\ pc \in {"done", "error"}) => (~written /\ disk = disk0)

\* C5: applying a fixable violation at line L of a file with lines `lines`
\* writes lines[0 .. L-2] ++ after ++ lines[L-1+len(before) ..]: the lines
\* before and after the slice are kept in order and the file has
\* len(after) - len(before) more lines.
C5_SpliceWritesExactly ==
    ret.called =>
        LET lines == SplitLines(args.text)
            L == args.violation.line
            before == args.violation.before.lines
            after == args.violation.after.lines
            new == SplitLines(ret.value)
        IN  /\ ret.raised = ""
            /\ ret.value = Join(SubSeq(lines, 1, L - 1) \o after
                                \o SubSeq(lines, L + Len(before), Len(lines)))
            /\ Len(new) = Len(lines) + Len(after) - Len(before)
            /\ SubSeq(new, 1, L - 1) = SubSeq(lines, 1, L - 1)
            /\ SubSeq(new, L, L + Len(after) - 1) = after
            /\ SubSeq(new, L + Len(after), Len(new))
                  = SubSeq(lines, L + Len(before), Len(lines))

\* C5's case: a fix with more `after` than `before` lines applied in the
\* middle of a three-line file
C5_Witness ==
    /\ ret.called
    /\ Len(SplitLines(args.text)) = 3
    /\ args.violation.line = 2
    /\ Len(args.violation.before.lines) = 1
    /\ Len(args.violation.after.lines) = 2

\* no pattern of the run reports a fixable violation for the content the
\* run began with
NoFixableReported ==
    \A i \in 1..Len(patterns) : Fixable(FreshCheck(patterns[i], disk0).value) = <<>>

C7_ConstructedViolationWellFormed ==
    (ret.called /\ ret.raised = "")
        => /\ LinesError(args.before.lines) = ""
           /\ LinesError(args.after.lines) = ""
           /\ (args.before.isNone <=> args.after.isNone)

\* C8: for a text in which no line has trailing whitespace, whether or not
\* its last line ends with a newline, TrailingWhitespace.check returns [].
C8_CleanTextNoViolations ==
    (ret.called /\ \A i \in 1..Len(SplitLines(args.text)) :
                      ~HasTrailingWhitespace(SplitLines(args.text)[i]))
        => (ret.raised = "" /\ ret.value = <<>>)

\* the line numbers of the lines with trailing whitespace, ascending
OffendingLines(lines) ==
    LET Test(i) == HasTrailingWhitespace(lines[i])
    IN  SelectSeq(Indices(1, Len(lines)), Test)

RECURSIVE ApplyInOrder(_, _, _)
\* lines after replacing, for each index of `order` in turn, the reported
\* line of that violation by its `after`
ApplyInOrder(lines, vs, order) ==
    IF order = <<>> THEN lines
    ELSE ApplyInOrder(Splice(lines, vs[Head(order)].line - 1,
                             Len(vs[Head(order)].before.lines),
                             vs[Head(order)].after.lines),
                      vs, Tail(order))

Orders(n) == {f \in [1..n -> 1..n] : \A i, j \in 1..n : f[i] = f[j] => i = j}

\* C9: for every text, TrailingWhitespace.check returns one violation per
\* line with trailing whitespace, in ascending line order, and replacing the
\* reported lines by their `after` lines, in any order, gives a text for
\* which the check returns [].
C9_FixAllThenClean ==
    ret.called =>
        /\ ret.raised = ""
        /\ [i \in 1..Len(ret.value) |-> ret.value[i].line]
              = OffendingLines(SplitLines(args.text))
        /\ \A order \in Orders(Len(ret.value)) :
              TrailingWhitespaceCheck(
                  SplitLines(Join(ApplyInOrder(SplitLines(args.text), ret.value,
                                               order))))
                = Returned(<<>>)

\* the argument nodes of the tree whose text begins with a space
SpacedArguments(t) == {p \in 1..Len(t) : IsArgument(t, p) /\ t[p] = SP}

\* C10: for any tree, calls nested in calls included, the check returns one
\* violation for each argument whose text begins with a space, at that
\* argument's start point, so no two violations share (line, column).
C10_OneViolationPerArgument ==
    (ret.called /\ ret.raised = "")
        => /\ Len(ret.value) = Cardinality(SpacedArguments(args.text))
           /\ \A p \in SpacedArguments(args.text) :
                 \E i \in 1..Len(ret.value) :
                    /\ ret.value[i].line = Point(args.text, p).row + 1
                    /\ ret.value[i].column = Point(args.text, p).col + 1
           /\ \A i, j \in 1..Len(ret.value) :
                 (ret.value[i].line = ret.value[j].line
                    /\ ret.value[i].column = ret.value[j].column) => i = j

\* what the enabled patterns report for the file, in the order check
\* collects it
RECURSIVE ReportedViolations(_, _)
ReportedViolations(ps, on_disk) ==
    IF ps = <<>> THEN <<>>
    ELSE The({FreshCheck(Head(ps), on_disk).value \o rest :
                rest \in {ReportedViolations(Tail(ps), on_disk)}})

\* every enabled pattern's check returns for the file
AllChecksReturn ==
    \A i \in 1..Len(patterns) : FreshCheck(patterns[i], disk).raised = ""

PrintedLines == LET Test(o) == o.print = "violation" IN SelectSeq(ret.value, Test)

PrintedDiffs == LET Test(o) == o.print = "diff" IN SelectSeq(ret.value, Test)

====
